---- MODULE Spec2Model ----
(***************************************************************************)
(* Exposure-time calculator (main.py): four closed-form functions and the  *)
(* routine main(args) that chains them and prints three results.           *)
(*                                                                         *)
(* Python floats are modelled as decimal floating-point numbers with       *)
(* Digits significant digits and a decimal exponent in EMin..EMax, plus    *)
(* NaN and the two infinities.  Arithmetic rounds to nearest (ties to      *)
(* even), overflows to infinity and underflows to zero as IEEE-754 does;   *)
(* math.sqrt, math.tan and ** raise as CPython's do.  Signed zero and      *)
(* subnormals are not modelled; the integer literals 3600, 120 and 5 are   *)
(* taken as the floats they become in their first float operation.         *)
(***************************************************************************)
EXTENDS Integers, Sequences, FiniteSets, TLC

\* ------------------------------------------------------------ float format
Digits == 4
EMax == 20
EMin == -EMax
MantMin == 10^(Digits - 1)
MantMax == 10^Digits - 1

\* A value: k is "fin" (m * 10^e), "nan", "inf" (sign in m), "None", or the
\* name of the exception an operation raised instead of returning.
Val(k, m, e) == [k |-> k, m |-> m, e |-> e]
NaN == Val("nan", 0, 0)
Inf == Val("inf", 1, 0)
NegInf == Val("inf", -1, 0)
None == Val("None", 0, 0)
Zero == Val("fin", 0, 0)
ValueError == Val("ValueError", 0, 0)
OverflowError == Val("OverflowError", 0, 0)

IsExc(v) == v.k \in {"ValueError", "OverflowError"}
IsFin(v) == v.k = "fin"
IsNaN(v) == v.k = "nan"
IsInf(v) == v.k = "inf"
IsZero(v) == v.k = "fin" /\ v.m = 0
Sign(v) == IF v.m < 0 THEN -1 ELSE IF v.m > 0 THEN 1 ELSE 0
Abs(n) == IF n < 0 THEN -n ELSE n
SignedInf(s) == IF s < 0 THEN NegInf ELSE Inf

RECURSIVE NumDigits(_)
NumDigits(n) == IF n < 10 THEN 1 ELSE 1 + NumDigits(n \div 10)

\* Round the exact magnitude n * 10^e (n > 0; sticky: a non-zero remainder
\* below n was dropped) to Digits digits, nearest with ties to even.  The
\* result is the float, Zero on underflow, or k = "ovf" on overflow.
RoundMant(s, n, e, sticky) ==
  LET d == NumDigits(n)
      sh == d - Digits
      q == IF sh <= 0 THEN n * 10^(-sh) ELSE n \div 10^sh
      r == IF sh <= 0 THEN 0 ELSE n % 10^sh
      half == IF sh <= 0 THEN 1 ELSE 5 * 10^(sh - 1)
      up == r > half \/ (r = half /\ (sticky \/ q % 2 = 1))
      q1 == IF up THEN q + 1 ELSE q
      carry == q1 > MantMax
      m == IF carry THEN MantMin ELSE q1
      ex == e + sh + (IF carry THEN 1 ELSE 0)
  IN IF ex + Digits - 1 > EMax THEN Val("ovf", s, 0)
     ELSE IF ex + Digits - 1 < EMin THEN Zero
     ELSE Val("fin", s * m, ex)

\* Overflow of *, / and + gives a signed infinity.
ToInf(v) == IF v.k = "ovf" THEN SignedInf(v.m) ELSE v

\* The float nearest the integer n (a literal such as 3600 or 1e6).
F(n) == IF n = 0 THEN Zero ELSE ToInf(RoundMant(IF n < 0 THEN -1 ELSE 1, Abs(n), 0, FALSE))
\* The float n * 10^e (a literal such as 1e-6 or 0.106).
FE(n, e) == IF n = 0 THEN Zero ELSE ToInf(RoundMant(IF n < 0 THEN -1 ELSE 1, Abs(n), e, FALSE))

\* a * b
Mul(a, b) ==
  IF IsNaN(a) \/ IsNaN(b) THEN NaN
  ELSE IF IsInf(a) \/ IsInf(b)
       THEN (IF IsZero(a) \/ IsZero(b) THEN NaN ELSE SignedInf(Sign(a) * Sign(b)))
  ELSE IF IsZero(a) \/ IsZero(b) THEN Zero
  ELSE ToInf(RoundMant(Sign(a) * Sign(b), Abs(a.m) * Abs(b.m), a.e + b.e, FALSE))

\* a / b for a finite non-zero divisor b
Div(a, b) ==
  IF IsNaN(a) THEN NaN
  ELSE IF IsInf(a) THEN SignedInf(Sign(a) * Sign(b))
  ELSE IF IsZero(a) THEN Zero
  ELSE LET n == Abs(a.m) * 10^(Digits + 1)
           d == Abs(b.m)
       IN ToInf(RoundMant(Sign(a) * Sign(b), n \div d, a.e - b.e - (Digits + 1),
                          n % d # 0))

\* a + b
Add(a, b) ==
  IF IsNaN(a) \/ IsNaN(b) THEN NaN
  ELSE IF IsInf(a) /\ IsInf(b) THEN (IF a.m = b.m THEN a ELSE NaN)
  ELSE IF IsInf(a) THEN a
  ELSE IF IsInf(b) THEN b
  ELSE IF IsZero(a) THEN b
  ELSE IF IsZero(b) THEN a
  ELSE LET hi == IF a.e >= b.e THEN a ELSE b
           lo == IF a.e >= b.e THEN b ELSE a
           gap == hi.e - lo.e
       IN IF gap > Digits THEN hi
          ELSE LET sum == hi.m * 10^gap + lo.m
               IN IF sum = 0 THEN Zero
                  ELSE ToInf(RoundMant(IF sum < 0 THEN -1 ELSE 1, Abs(sum), lo.e, FALSE))

\* floor(sqrt(n)) by bisection on lo..hi
RECURSIVE ISqrt(_, _, _)
ISqrt(n, lo, hi) ==
  IF lo >= hi THEN lo
  ELSE LET mid == (lo + hi + 1) \div 2
       IN IF mid * mid <= n THEN ISqrt(n, mid, hi) ELSE ISqrt(n, lo, mid - 1)

\* Mutant of Sqrt: a square root that answers NaN below zero, as C's sqrt and
\* numpy.sqrt do, instead of raising.
Sqrt_NaNBelowZero(x) ==
  IF IsNaN(x) \/ (IsInf(x) /\ x.m < 0) \/ (IsFin(x) /\ x.m < 0) THEN NaN
  ELSE IF IsInf(x) THEN Inf
  ELSE IF IsZero(x) THEN Zero
  ELSE LET odd == x.e % 2 # 0
           n == x.m * 10^(IF odd THEN Digits - 1 ELSE Digits)
           ex == (x.e - (IF odd THEN Digits - 1 ELSE Digits)) \div 2
           r == ISqrt(n, 0, 10^Digits)
       IN ToInf(RoundMant(1, IF n - r * r > r THEN r + 1 ELSE r, ex, n # r * r))

\* math.sqrt(x): ValueError("math domain error") below zero
Sqrt(x) ==
  IF IsNaN(x) THEN NaN
  ELSE IF IsInf(x) THEN (IF x.m > 0 THEN Inf ELSE ValueError)
  ELSE IF IsZero(x) THEN Zero
  ELSE IF x.m < 0 THEN ValueError
  ELSE LET odd == x.e % 2 # 0
           n == x.m * 10^(IF odd THEN Digits - 1 ELSE Digits)
           ex == (x.e - (IF odd THEN Digits - 1 ELSE Digits)) \div 2
           r == ISqrt(n, 0, 10^Digits)
           up == n - r * r > r
       IN ToInf(RoundMant(1, IF up THEN r + 1 ELSE r, ex, n # r * r))

\* x ** 2: OverflowError when a finite x squares out of range
Pow2(x) ==
  IF IsNaN(x) THEN NaN
  ELSE IF IsInf(x) THEN Inf
  ELSE IF IsZero(x) THEN Zero
  ELSE LET r == RoundMant(1, x.m * x.m, x.e + x.e, FALSE)
       IN IF r.k = "ovf" THEN OverflowError ELSE r

\* math.tan(x), tabulated to Digits digits at the angles of the model;
\* below 0.01 rad tan(x) rounds to x.  ValueError at an infinity.
TanTable(m, e) ==
  CASE m = 1000 /\ e = -3 -> FE(1557, -3)
    [] m = 2000 /\ e = -3 -> FE(-2185, -3)
    [] m = 1000 /\ e = -1 -> FE(-5872, -4)
    [] m = 1000 /\ e = 9 -> FE(-7723, -4)
    [] m = 4850 /\ e = 3 -> FE(-1649, -4)

Neg(v) == Val(v.k, -v.m, v.e)

Tan(x) ==
  IF IsNaN(x) THEN NaN
  ELSE IF IsInf(x) THEN ValueError
  ELSE IF IsZero(x) THEN Zero
  ELSE IF x.e + Digits - 1 < -2 THEN x
  ELSE IF x.m < 0 THEN Neg(TanTable(-x.m, x.e)) ELSE TanTable(x.m, x.e)

\* math.pi
Pi == FE(3142, -3)

\* ---------------------------------------------------------- the functions
\* Each returns a float, or the exception that left the function.
\* Mutant: the product associated the other way, sr * (area * et).
photons_per_pixel_Reassociated(sps, sr, et) == Mul(sr, Mul(sps, et))

calculate_number_of_photons_per_pixel(sps, sr, et) ==
  LET collecting_area == sps
  IN Mul(Mul(sr, collecting_area), et)

\* Mutant: the side length, not squared.
square_pixel_size_NotSquared(fl, ang) ==
  LET t == Tan(ang)
  IN IF IsExc(t) THEN t ELSE Mul(Mul(fl, t), FE(1, 6))

calculate_square_pixel_size(fl, ang) ==
  LET t == Tan(ang)
  IN IF IsExc(t) THEN t ELSE Pow2(Mul(Mul(fl, t), FE(1, 6)))

\* Mutant: n * 0.5 for n ** 0.5.
photon_noise_Half(n) == Mul(n, FE(5, -1))

calculate_photon_noise(n) == Sqrt(n)

\* Mutant: the product clamped at zero, a threshold the code does not have.
min_photons_Clamped(bn, snr) ==
  LET r == Mul(bn, snr)
  IN IF (IsFin(r) \/ IsInf(r)) /\ r.m < 0 THEN Zero ELSE r

calculate_min_photons_for_signal_to_noise_gt_5(bn, snr) == Mul(bn, snr)

\* `x if x else d`: Python truth of an optional float (None and 0.0 are false)
Truthy(v) == ~(v.k = "None") /\ ~IsZero(v)
OrDefault(v, d) == IF Truthy(v) THEN v ELSE d

\* ------------------------------------------------------------ model inputs
Big == FE(1, 12)
Small == FE(1, -12)
Floats == {Zero, F(1), F(-1), F(2), F(100), Big, Small, Inf, NegInf, NaN}
OptFloats == Floats \cup {None}

VARIABLES
  args,                                \* the parsed command line
  pc,                                  \* position in main
  spectral_radiance, exposure_time, focal_length, sky_arcseconds,
  angular_size, square_pixel_size, number_of_background_photons,
  photon_noise, total_number_of_background_photons,
  min_photons_for_signal_to_noise_gt_5,
  stdout,                              \* the blocks printed so far
  exc,                                 \* the exception that ended main
  call                                 \* a direct call of one function

locals == <<spectral_radiance, exposure_time, focal_length, sky_arcseconds,
            angular_size, square_pixel_size, number_of_background_photons,
            photon_noise, total_number_of_background_photons,
            min_photons_for_signal_to_noise_gt_5>>
vars == <<args, pc, locals, stdout, exc, call>>

LocalsUnbound ==
  /\ spectral_radiance = None /\ exposure_time = None
  /\ focal_length = None /\ sky_arcseconds = None
  /\ angular_size = None /\ square_pixel_size = None
  /\ number_of_background_photons = None /\ photon_noise = None
  /\ total_number_of_background_photons = None
  /\ min_photons_for_signal_to_noise_gt_5 = None

\* parser.parse_args(): each flag is a float or absent; then main(args)
Init ==
  /\ args \in [sr : OptFloats, et : OptFloats, fl : OptFloats, sa : OptFloats]
  /\ call = [fn |-> "none", a |-> None, b |-> None, c |-> None, out |-> None]
  /\ pc = "l97"
  /\ LocalsUnbound
  /\ stdout = <<>>
  /\ exc = "none"

\* ------------------------------------------------------------------- main
\* A statement of main that binds a local: the value, or the exception that
\* leaves main with nothing further executed.
Raise(v) == pc' = "raised" /\ exc' = v.k
Goto(l) == pc' = l /\ exc' = exc

\* Mutant: a default of -1e-6.
L97_NegativeDefault ==
  /\ pc = "l97"
  /\ spectral_radiance' = OrDefault(args.sr, FE(-1, -6))
  /\ Goto("l103")
  /\ UNCHANGED <<args, exposure_time, focal_length, sky_arcseconds, angular_size,
                 square_pixel_size, number_of_background_photons, photon_noise,
                 total_number_of_background_photons,
                 min_photons_for_signal_to_noise_gt_5, stdout, call>>

L97 ==
  /\ pc = "l97"
  /\ spectral_radiance' = OrDefault(args.sr, FE(1, -6))
  /\ Goto("l103")
  /\ UNCHANGED <<args, exposure_time, focal_length, sky_arcseconds, angular_size,
                 square_pixel_size, number_of_background_photons, photon_noise,
                 total_number_of_background_photons,
                 min_photons_for_signal_to_noise_gt_5, stdout, call>>

L103 ==
  /\ pc = "l103"
  /\ exposure_time' = OrDefault(args.et, F(3600))
  /\ Goto("l105")
  /\ UNCHANGED <<args, spectral_radiance, focal_length, sky_arcseconds, angular_size,
                 square_pixel_size, number_of_background_photons, photon_noise,
                 total_number_of_background_photons,
                 min_photons_for_signal_to_noise_gt_5, stdout, call>>

L105 ==
  /\ pc = "l105"
  /\ focal_length' = OrDefault(args.fl, F(120))
  /\ Goto("l107")
  /\ UNCHANGED <<args, spectral_radiance, exposure_time, sky_arcseconds, angular_size,
                 square_pixel_size, number_of_background_photons, photon_noise,
                 total_number_of_background_photons,
                 min_photons_for_signal_to_noise_gt_5, stdout, call>>

L107 ==
  /\ pc = "l107"
  /\ sky_arcseconds' = OrDefault(args.sa, FE(106, -3))
  /\ Goto("l109")
  /\ UNCHANGED <<args, spectral_radiance, exposure_time, focal_length, angular_size,
                 square_pixel_size, number_of_background_photons, photon_noise,
                 total_number_of_background_photons,
                 min_photons_for_signal_to_noise_gt_5, stdout, call>>

\* sky_arcseconds / ((3600 * 180) / math.pi)
ToRadians(arcsec) == Div(arcsec, Div(F(3600 * 180), Pi))

L109 ==
  /\ pc = "l109"
  /\ angular_size' = ToRadians(sky_arcseconds)
  /\ Goto("l113")
  /\ UNCHANGED <<args, spectral_radiance, exposure_time, focal_length, sky_arcseconds,
                 square_pixel_size, number_of_background_photons, photon_noise,
                 total_number_of_background_photons,
                 min_photons_for_signal_to_noise_gt_5, stdout, call>>

L113 ==
  /\ pc = "l113"
  /\ LET r == calculate_square_pixel_size(focal_length, angular_size)
     IN \/ IsExc(r) /\ Raise(r) /\ UNCHANGED square_pixel_size
        \/ ~IsExc(r) /\ Goto("l117") /\ square_pixel_size' = r
  /\ UNCHANGED <<args, spectral_radiance, exposure_time, focal_length, sky_arcseconds,
                 angular_size, number_of_background_photons, photon_noise,
                 total_number_of_background_photons,
                 min_photons_for_signal_to_noise_gt_5, stdout, call>>

\* Mutant: the background count printed as soon as it is computed.
L117_PrintsEarly ==
  /\ pc = "l117"
  /\ number_of_background_photons' =
       calculate_number_of_photons_per_pixel(square_pixel_size, spectral_radiance,
                                             exposure_time)
  /\ stdout' = Append(stdout, [label |-> "background",
                               value |-> number_of_background_photons'])
  /\ Goto("l121")
  /\ UNCHANGED <<args, spectral_radiance, exposure_time, focal_length, sky_arcseconds,
                 angular_size, square_pixel_size, photon_noise,
                 total_number_of_background_photons,
                 min_photons_for_signal_to_noise_gt_5, call>>

L117 ==
  /\ pc = "l117"
  /\ number_of_background_photons' =
       calculate_number_of_photons_per_pixel(square_pixel_size, spectral_radiance,
                                             exposure_time)
  /\ Goto("l121")
  /\ UNCHANGED <<args, spectral_radiance, exposure_time, focal_length, sky_arcseconds,
                 angular_size, square_pixel_size, photon_noise,
                 total_number_of_background_photons,
                 min_photons_for_signal_to_noise_gt_5, stdout, call>>

L121 ==
  /\ pc = "l121"
  /\ LET r == calculate_photon_noise(number_of_background_photons)
     IN \/ IsExc(r) /\ Raise(r) /\ UNCHANGED photon_noise
        \/ ~IsExc(r) /\ Goto("l124") /\ photon_noise' = r
  /\ UNCHANGED <<args, spectral_radiance, exposure_time, focal_length, sky_arcseconds,
                 angular_size, square_pixel_size, number_of_background_photons,
                 total_number_of_background_photons,
                 min_photons_for_signal_to_noise_gt_5, stdout, call>>

L124 ==
  /\ pc = "l124"
  /\ total_number_of_background_photons' =
       Add(number_of_background_photons, photon_noise)
  /\ Goto("l128")
  /\ UNCHANGED <<args, spectral_radiance, exposure_time, focal_length, sky_arcseconds,
                 angular_size, square_pixel_size, number_of_background_photons,
                 photon_noise, min_photons_for_signal_to_noise_gt_5, stdout, call>>

\* Mutant: the minimum computed from the noise alone.
L128_NoiseOnly ==
  /\ pc = "l128"
  /\ min_photons_for_signal_to_noise_gt_5' =
       calculate_min_photons_for_signal_to_noise_gt_5(photon_noise, F(5))
  /\ Goto("l132")
  /\ UNCHANGED <<args, spectral_radiance, exposure_time, focal_length, sky_arcseconds,
                 angular_size, square_pixel_size, number_of_background_photons,
                 photon_noise, total_number_of_background_photons, stdout, call>>

L128 ==
  /\ pc = "l128"
  /\ min_photons_for_signal_to_noise_gt_5' =
       calculate_min_photons_for_signal_to_noise_gt_5(
         total_number_of_background_photons, F(5))
  /\ Goto("l132")
  /\ UNCHANGED <<args, spectral_radiance, exposure_time, focal_length, sky_arcseconds,
                 angular_size, square_pixel_size, number_of_background_photons,
                 photon_noise, total_number_of_background_photons, stdout, call>>

\* print(label, value, "\n"): one block appended to standard output
PrintBlock(label, v, next) ==
  /\ stdout' = Append(stdout, [label |-> label, value |-> v])
  /\ Goto(next)
  /\ UNCHANGED <<args, locals, call>>

L132 ==
  /\ pc = "l132"
  /\ PrintBlock("background", number_of_background_photons, "l135")

L135 ==
  /\ pc = "l135"
  /\ PrintBlock("noise", photon_noise, "l137")

L137 ==
  /\ pc = "l137"
  /\ PrintBlock("min_photons", min_photons_for_signal_to_noise_gt_5, "done")

Next ==
  \/ L97 \/ L103 \/ L105 \/ L107 \/ L109 \/ L113 \/ L117
  \/ L121 \/ L124 \/ L128 \/ L132 \/ L135 \/ L137

Spec == Init /\ [][Next]_vars

\* ------------------------------------------------- direct calls (test_etc)
\* The test module calls each function on its own; the arguments a, b, c are
\* drawn from Floats and out is the value returned or the exception raised.
InitUnit ==
  /\ args = [sr |-> None, et |-> None, fl |-> None, sa |-> None]
  /\ call \in [fn : {"none"}, a : Floats, b : Floats, c : Floats, out : {None}]
  /\ pc = "idle"
  /\ LocalsUnbound
  /\ stdout = <<>>
  /\ exc = "none"

Called(fn, out) ==
  /\ call' = [call EXCEPT !.fn = fn, !.out = out]
  /\ UNCHANGED <<args, pc, locals, stdout, exc>>

test_calculate_number_of_photons_per_pixel ==
  /\ call.fn = "none"
  /\ Called("calculate_number_of_photons_per_pixel",
            calculate_number_of_photons_per_pixel(call.a, call.b, call.c))

test_calculate_square_pixel_size ==
  /\ call.fn = "none"
  /\ Called("calculate_square_pixel_size", calculate_square_pixel_size(call.a, call.b))

test_calculate_photon_noise ==
  /\ call.fn = "none"
  /\ Called("calculate_photon_noise", calculate_photon_noise(call.a))

test_calculate_min_photons_for_signal_to_noise_gt_5 ==
  /\ call.fn = "none"
  /\ Called("calculate_min_photons_for_signal_to_noise_gt_5",
            calculate_min_photons_for_signal_to_noise_gt_5(call.a, call.b))

NextUnit ==
  \/ test_calculate_number_of_photons_per_pixel
  \/ test_calculate_square_pixel_size
  \/ test_calculate_photon_noise
  \/ test_calculate_min_photons_for_signal_to_noise_gt_5

SpecUnit == InitUnit /\ [][NextUnit]_vars

\* ------------------------------------------------------------ properties
Negative(v) == (IsFin(v) \/ IsInf(v)) /\ v.m < 0
Positive(v) == (IsFin(v) \/ IsInf(v)) /\ v.m > 0
NonNegative(v) == IsZero(v) \/ Positive(v)
AbsVal(v) == IF v.m < 0 THEN Neg(v) ELSE v
\* a <= b for finite non-negative a, b
MagLe(a, b) ==
  \/ IsZero(a)
  \/ ~IsZero(b) /\ (a.e < b.e \/ (a.e = b.e /\ a.m <= b.m))
\* x is y up to a relative error of 2e-3 (finite y)
Close(x, y) == IsFin(x) /\ MagLe(AbsVal(Add(x, Neg(y))), Mul(AbsVal(y), FE(2, -3)))

Terminated == pc \in {"done", "raised"}
\* The statements of main; each has one action, enabled whenever pc is there.
MainLabels == {"l97", "l103", "l105", "l107", "l109", "l113", "l117", "l121",
               "l124", "l128", "l132", "l135", "l137"}
Labels == <<"background", "noise", "min_photons">>

C2_DefaultIffAbsent ==
  pc \in {"l109", "l113", "l117", "l121", "l124", "l128", "l132", "l135", "l137",
          "done", "raised"} =>
    /\ spectral_radiance = (IF args.sr = None THEN FE(1, -6) ELSE args.sr)
    /\ exposure_time = (IF args.et = None THEN F(3600) ELSE args.et)
    /\ focal_length = (IF args.fl = None THEN F(120) ELSE args.fl)
    /\ sky_arcseconds = (IF args.sa = None THEN FE(106, -3) ELSE args.sa)

\* The base whose square calculate_square_pixel_size returns.
Side(fl, ang) == Mul(Mul(fl, Tan(ang)), FE(1, 6))
SquareOverflows(x) == IsFin(x) /\ Mul(x, x) = Inf

C4_Chain ==
  pc = "done" =>
    LET radians == Div(sky_arcseconds, Div(F(3600 * 180), Pi))
        B == calculate_number_of_photons_per_pixel(
               calculate_square_pixel_size(focal_length, radians),
               spectral_radiance, exposure_time)
        N == calculate_photon_noise(B)
        M == Mul(F(5), Add(B, N))
    IN stdout = << [label |-> "background", value |-> B],
                   [label |-> "noise", value |-> N],
                   [label |-> "min_photons", value |-> M] >>

C4_Witness ==
  /\ pc = "done"
  /\ args.sr = F(2)
  /\ IsFin(stdout[3].value)
  /\ stdout[3].value = Mul(F(5), Add(stdout[1].value, stdout[2].value))
  /\ stdout[3].value # Mul(F(5), stdout[2].value)

AllAbsent == args = [sr |-> None, et |-> None, fl |-> None, sa |-> None]

\* C5: main with no flag set does not raise and prints exactly three blocks,
\* background count, noise, minimum, each holding a finite value.
C5_DefaultRun ==
  AllAbsent =>
    /\ pc \in MainLabels \cup {"done"}
    /\ Len(stdout) <= 3
    /\ pc = "done" =>
         /\ Len(stdout) = 3
         /\ \A i \in 1..3 : stdout[i].label = Labels[i] /\ IsFin(stdout[i].value)

C5_Witness ==
  /\ AllAbsent
  /\ pc = "done"
  /\ stdout[1].value = FE(1370, -2)
  /\ stdout[2].value = FE(3701, -3)
  /\ stdout[3].value = FE(8700, -2)

PerfectRoots == 99
SqrtRange == 50

\* C6 (as claimed): for finite s, p, t, photons_per_pixel(s, p, t) is the product s*p*t whichever
\* argument position holds which factor, and photons_per_pixel(1, 1, 1) = 1.
C6_AnyOrder ==
  (/\ call.fn = "calculate_number_of_photons_per_pixel"
   /\ IsFin(call.a) /\ IsFin(call.b) /\ IsFin(call.c)) =>
    LET a == call.a
        b == call.b
        c == call.c
    IN /\ call.out = Mul(Mul(a, b), c)
       /\ call.out = calculate_number_of_photons_per_pixel(a, c, b)
       /\ call.out = calculate_number_of_photons_per_pixel(b, a, c)
       /\ call.out = calculate_number_of_photons_per_pixel(b, c, a)
       /\ call.out = calculate_number_of_photons_per_pixel(c, a, b)
       /\ call.out = calculate_number_of_photons_per_pixel(c, b, a)
       /\ calculate_number_of_photons_per_pixel(F(1), F(1), F(1)) = F(1)

\* C6 (amended): photons_per_pixel(s, p, t) returns the float product
\* (s*p)*t, the first two factors multiplied first; exchanging s and p leaves
\* the result unchanged, while moving t may not (an intermediate product can
\* overflow to inf or underflow to 0); photons_per_pixel(1, 1, 1) = 1.
C6_LeftToRight ==
  call.fn = "calculate_number_of_photons_per_pixel" =>
    /\ ~IsExc(call.out)
    /\ call.out = Mul(Mul(call.a, call.b), call.c)
    /\ call.out = calculate_number_of_photons_per_pixel(call.b, call.a, call.c)
    /\ calculate_number_of_photons_per_pixel(F(1), F(1), F(1)) = F(1)

C6_Witness ==
  /\ call.fn = "calculate_number_of_photons_per_pixel"
  /\ call.a = Big /\ call.b = Big /\ call.c = Small
  /\ call.out = Inf
  /\ calculate_number_of_photons_per_pixel(call.a, call.c, call.b) = Big

\* C7 (as claimed): for finite b and r, min_photons_for_snr(b, r) is exactly b*r with no
\* thresholding, so a zero argument gives 0 and a negative argument gives a
\* negative result; min_photons_for_snr(2, 5) = 10.
C7_LinearAsClaimed ==
  (/\ call.fn = "calculate_min_photons_for_signal_to_noise_gt_5"
   /\ IsFin(call.a) /\ IsFin(call.b)) =>
    /\ call.out = Mul(call.a, call.b)
    /\ (IsZero(call.a) \/ IsZero(call.b)) => IsZero(call.out)
    /\ (Negative(call.a) \/ Negative(call.b)) => Negative(call.out)
    /\ calculate_min_photons_for_signal_to_noise_gt_5(F(2), F(5)) = F(10)

\* C7 (amended): min_photons_for_snr(b, r) is exactly b*r with no
\* thresholding: a zero argument gives 0 when the other argument is finite
\* (NaN when it is infinite), arguments of opposite sign give a negative
\* result and two negative arguments a positive one (either may underflow to
\* zero); min_photons_for_snr(2, 5) = 10.
C7_Product ==
  call.fn = "calculate_min_photons_for_signal_to_noise_gt_5" =>
    LET a == call.a
        b == call.b
    IN /\ call.out = Mul(a, b)
       /\ ((IsZero(a) /\ IsFin(b)) \/ (IsZero(b) /\ IsFin(a))) => IsZero(call.out)
       /\ ((IsZero(a) /\ IsInf(b)) \/ (IsZero(b) /\ IsInf(a))) => IsNaN(call.out)
       /\ ((Negative(a) /\ Positive(b)) \/ (Positive(a) /\ Negative(b))) =>
            (Negative(call.out) \/ IsZero(call.out))
       /\ (Negative(a) /\ Negative(b)) => (Positive(call.out) \/ IsZero(call.out))
       /\ (a = F(-1) /\ b = F(2)) => call.out = F(-2)
       /\ calculate_min_photons_for_signal_to_noise_gt_5(F(2), F(5)) = F(10)

C7_Witness ==
  /\ call.fn = "calculate_min_photons_for_signal_to_noise_gt_5"
  /\ call.a = F(-1) /\ call.b = F(-1)
  /\ call.out = F(1)

\* C8: for n >= 0, photon_noise(n) is the non-negative square root of n:
\* its square gives back n, up to rounding in general and exactly for
\* perfect squares (photon_noise(100) = 10, photon_noise(0) = 0).
C8_SquareRoot ==
  /\ (call.fn = "calculate_photon_noise" /\ NonNegative(call.a)) =>
       /\ NonNegative(call.out)
       /\ IsInf(call.a) => call.out = Inf
       /\ IsFin(call.a) => Close(Mul(call.out, call.out), call.a)
  /\ \A k \in 0..PerfectRoots : calculate_photon_noise(F(k * k)) = F(k)
  /\ \A k \in 0..SqrtRange :
       LET r == calculate_photon_noise(F(k))
       IN NonNegative(r) /\ Close(Mul(r, r), F(k))

C8_Witness ==
  /\ call.fn = "calculate_photon_noise"
  /\ call.a = F(100)
  /\ call.out = F(10)

C10_AllOrNothing ==
  /\ stdout # <<>> =>
       /\ pc \in {"l135", "l137", "done"}
       /\ square_pixel_size # None
       /\ number_of_background_photons # None
       /\ photon_noise # None
       /\ min_photons_for_signal_to_noise_gt_5 # None
  /\ pc = "raised" => stdout = <<>>
  /\ Terminated => Len(stdout) \in {0, 3}
  /\ Len(stdout) <= 3
  /\ \A i \in 1..Len(stdout) : stdout[i].label = Labels[i]

C10_Witness ==
  /\ pc = "raised"
  /\ square_pixel_size # None
  /\ number_of_background_photons # None
  /\ stdout = <<>>

====
